---- MODULE Spec2Model ----
(***************************************************************************)
(* Customer delivery addresses: the customer_addresses table behind its    *)
(* row-level-security policy, the four mutations of useCustomerAddresses   *)
(* (create, update, delete, setDefault) with their remote calls as         *)
(* separate steps, the list query, and the save handler of AddressSelector *)
(* that is the caller of create and update, together with the working copy *)
(* of the list and the selection that the selector keeps.  The save of a   *)
(* vehicle rent rule (VehicleRentRulesTab) is modelled next to it.         *)
(***************************************************************************)
EXTENDS Integers, Sequences, FiniteSets, TLC

\* ------------------------------------------------------------------ bounds
\* Rows a table may ever hold (ids are never reused).
MaxAddr == 2
\* Highest clock value at which a new invocation may still start.
MaxClock == 3

\* ------------------------------------------------------------- value sets
Users == {"u1", "u2"}
NoUser == "nouser"
Sessions == {"s1", "s2"}
\* Who useAuth() may give each session: s1 is u1's tab, signed in or not;
\* s2 is a second tab, signed in as u1 or as u2.
AuthOf(s) == IF s = "s1" THEN {"u1", NoUser} ELSE {"u1", "u2"}
NoId == 0
AddrIds == 1..MaxAddr
\* Texts typed into the form: empty, whitespace-only, and a real address.
Texts == {<<>>, <<" ">>, <<"a">>}
NoOp == [kind |-> "none", user |-> NoUser, id |-> NoId,
         full_address |-> <<>>, is_default |-> FALSE]
\* The owner both tabs are signed in as where one owner is looked at.
SameOwner == {"u1"}
\* The session whose AddressSelector is watched: its query data and its
\* selection are the variables addresses .. showManualInput.
Tab == "s1"
\* The value 'new' of the "Enter a new address" radio item.
NewChoice == 0 - 1
\* What find() gives when nothing matches and what [][0] gives: undefined.
NoAddress == [id |-> NoId]
\* The rent-rule form with Save not pressed.
NoRentOp == [typed |-> <<>>, vehicleType |-> <<>>, minimumRent |-> <<>>,
             isActive |-> FALSE, editingRule |-> NoId, pressed |-> FALSE]

VARIABLES
    rows,       \* the customer_addresses table: a set of row records
    nextId,     \* the next id gen_random_uuid() hands out
    now,        \* the clock read by now() and new Date()
    op,         \* per session: the invocation in progress (NoOp when idle)
    clearRes,   \* per session: the clear-defaults call: none/pending/ok/fail
    mainRes,    \* per session: the insert/update/delete call: none/pending/ok/fail/norows
    result,     \* per session: how the invocation ended, until it is settled
    before,     \* per session: the ids of the owner's default rows when the
                \* invocation started (history, read by no action)
    addresses,  \* the selector's working copy of the list (the query data)
    query,      \* the list query: idle / fetching / error
    selectedAddressId,  \* the selector's selection (NoId when empty)
    showManualInput,    \* the selector's manual-entry mode
    rules,      \* the vehicle_rent_rules table: a set of row records
    rentOp,     \* the rent-rule form when Save was pressed (NoRentOp when idle)
    rentCall,   \* the insert/update call of saveMutation: none/pending/ok/fail
    rentResult  \* how saveMutation ended, until it is settled

storeVars == <<rows, nextId, now, op, clearRes, mainRes, result, before>>
uiVars == <<addresses, query, selectedAddressId, showManualInput>>
rentVars == <<rules, rentOp, rentCall, rentResult>>
addressVars == <<rows, nextId, now, op, clearRes, mainRes, result, before,
                 addresses, query, selectedAddressId, showManualInput>>
vars == <<rows, nextId, now, op, clearRes, mainRes, result, before,
          addresses, query, selectedAddressId, showManualInput,
          rules, rentOp, rentCall, rentResult>>

\* ---------------------------------------------------------- pure helpers
RECURSIVE TrimStart(_)
TrimStart(s) ==
    IF s = <<>> THEN <<>>
    ELSE IF Head(s) = " " THEN TrimStart(Tail(s)) ELSE s

RECURSIVE TrimEnd(_)
TrimEnd(s) ==
    IF s = <<>> THEN <<>>
    ELSE IF s[Len(s)] = " " THEN TrimEnd(SubSeq(s, 1, Len(s) - 1)) ELSE s

\* String.prototype.trim
Trim(s) == TrimEnd(TrimStart(s))

\* The rows of one owner, and those flagged default.
RowsOf(rs, u) == {r \in rs : r.user_id = u}
DefaultsOf(rs, u) == {r \in rs : r.user_id = u /\ r.is_default}
DefaultIds(rs, u) == {r.id : r \in DefaultsOf(rs, u)}

\* --------------------------------------------------------- the remote store
\* Policy "Users can manage their own addresses": USING (auth.uid() = user_id).
Visible(uid, r) == r.user_id = uid

\* A clear call that reaches the rows of every owner: no owner in its
\* filter, and issued where the policy does not restrict it.
ClearDefaults_EveryOwner(rs, uid, u, exceptId) ==
    {IF r.id # exceptId THEN [r EXCEPT !.is_default = FALSE] ELSE r : r \in rs}

\* A clear call that filters .eq('id', exceptId) where .neq was meant.
ClearDefaults_EqId(rs, uid, u, exceptId) ==
    {IF Visible(uid, r) /\ r.user_id = u /\ r.id = exceptId
        THEN [r EXCEPT !.is_default = FALSE]
        ELSE r : r \in rs}

\* A clear call whose filter names the wrong column and matches no row.
ClearDefaults_WrongColumn(rs, uid, u, exceptId) == rs

\* update({ is_default: false }).eq('user_id', u)[.neq('id', exceptId)]
\* issued with the credentials of uid; exceptId = NoId when there is no .neq.
ClearDefaults(rs, uid, u, exceptId) ==
    {IF Visible(uid, r) /\ r.user_id = u /\ r.id # exceptId
        THEN [r EXCEPT !.is_default = FALSE]
        ELSE r : r \in rs}

\* An insert that leaves is_default to its column default, false.
InsertRow_ColumnDefault(rs, newId, u, text, dflt, ts) ==
    rs \cup {[id |-> newId, user_id |-> u, full_address |-> text,
              is_default |-> FALSE, created_at |-> ts, updated_at |-> ts]}

\* insert({user_id, full_address, is_default, ...}): id and both timestamps
\* are column defaults.
InsertRow(rs, newId, u, text, dflt, ts) ==
    rs \cup {[id |-> newId, user_id |-> u, full_address |-> text,
              is_default |-> dflt, created_at |-> ts, updated_at |-> ts]}

\* A filter that names the owner only: .eq('user_id', u).
Matching_OwnerOnly(rs, uid, id, u) ==
    {r \in rs : Visible(uid, r) /\ r.user_id = u}

\* The rows an .eq('id', id).eq('user_id', u) filter matches for uid.
Matching(rs, uid, id, u) ==
    {r \in rs : Visible(uid, r) /\ r.id = id /\ r.user_id = u}

\* update({...input, updated_at}).eq('id', id).eq('user_id', u)
PatchRow(rs, uid, id, u, text, dflt, ts) ==
    {IF r \in Matching(rs, uid, id, u)
        THEN [r EXCEPT !.full_address = text, !.is_default = dflt,
                       !.updated_at = ts]
        ELSE r : r \in rs}

\* update({ is_default: true, updated_at }).eq('id', id).eq('user_id', u)
PromoteRow(rs, uid, id, u, ts) ==
    {IF r \in Matching(rs, uid, id, u)
        THEN [r EXCEPT !.is_default = TRUE, !.updated_at = ts]
        ELSE r : r \in rs}

\* delete().eq('id', id).eq('user_id', u)
DeleteRow(rs, uid, id, u) == rs \ Matching(rs, uid, id, u)

\* The ordering with created_at ascending.
Before_OldestFirst(r1, r2) ==
    \/ r1.is_default /\ ~r2.is_default
    \/ r1.is_default = r2.is_default /\ r1.created_at < r2.created_at

\* The ordering with is_default ascending.
Before_DefaultLast(r1, r2) ==
    \/ ~r1.is_default /\ r2.is_default
    \/ r1.is_default = r2.is_default /\ r1.created_at > r2.created_at

\* .order('is_default', { ascending: false }).order('created_at', { ascending: false })
\* r1 comes before r2.
Before(r1, r2) ==
    \/ r1.is_default /\ ~r2.is_default
    \/ r1.is_default = r2.is_default /\ r1.created_at > r2.created_at

RECURSIVE SortRows(_)
SortRows(S) ==
    IF S = {} THEN <<>>
    ELSE LET first == CHOOSE r \in S : \A q \in S \ {r} : ~Before(q, r)
         IN  <<first>> \o SortRows(S \ {first})

\* The list query: select('*').eq('user_id', user.id).order(...).order(...),
\* or [] with no user.
queryFn(uid) ==
    IF uid = NoUser THEN <<>>
    ELSE SortRows({r \in rows : Visible(uid, r) /\ r.user_id = uid})

\* addresses.find(a => a.is_default)
RECURSIVE Find(_)
Find(list) ==
    IF list = <<>> THEN NoAddress
    ELSE IF Head(list).is_default THEN Head(list) ELSE Find(Tail(list))

\* The first element, whatever the flags.
deriveInitialSelection_FirstOnly(list) ==
    IF list # <<>> THEN list[1] ELSE NoAddress

\* addresses.find(a => a.is_default) || addresses[0]
deriveInitialSelection(list) ==
    IF Find(list) # NoAddress THEN Find(list)
    ELSE IF list # <<>> THEN list[1] ELSE NoAddress

\* The initial-selection effect, run after every render that changed the
\* list or the selection: the selection it leaves.
useEffect(list, sel) ==
    IF Len(list) > 0 /\ sel = NoId
        THEN deriveInitialSelection(list).id
        ELSE sel

\* ------------------------------------------------------- session helpers
Pending(s) == clearRes[s] = "pending" \/ mainRes[s] = "pending"
\* No invocation of any session is in progress or unsettled.
Quiet == \A s \in Sessions : op[s] = NoOp

\* The clear call issued whatever is_default is.
Promotes_Always(o) == o.kind \in {"create", "update", "setDefault"}

\* `if (input.is_default)` of create and update; setDefault always clears.
Promotes(o) == o.kind = "setDefault" \/ (o.kind \in {"create", "update"} /\ o.is_default)

\* update's clear call without its .neq('id', id).
ClearExcept_Missing(o) == NoId

\* The .neq('id', id) of update's clear call; create and setDefault have none.
ClearExcept(o) == IF o.kind = "update" THEN o.id ELSE NoId

\* The filter chain of the clear-defaults update: .eq('user_id', user.id),
\* and .neq('id', id) in update.  NoId: the chain has no such link.
ClearFilter(o) == [eq_user_id |-> o.user, eq_id |-> NoId, neq_id |-> ClearExcept(o)]

\* The filter chain of the update that writes the named row, and of delete:
\* .eq('id', id).eq('user_id', user.id).
MainFilter(o) == [eq_user_id |-> o.user, eq_id |-> o.id, neq_id |-> NoId]

\* The rows a filter chain keeps.
FilterMatches(f, r) ==
    /\ r.user_id = f.eq_user_id
    /\ f.eq_id # NoId => r.id = f.eq_id
    /\ f.neq_id # NoId => r.id # f.neq_id

\* The filters of the update calls session s has in flight.
UpdateCalls(s) ==
    (IF clearRes[s] = "pending" THEN {ClearFilter(op[s])} ELSE {})
      \cup (IF mainRes[s] = "pending" /\ op[s].kind \in {"update", "setDefault"}
               THEN {MainFilter(op[s])} ELSE {})

\* createAddressMutation.isPending / updateAddressMutation.isPending: from
\* mutate() until the callbacks have run.
isCreating(s) == op[s].kind = "create" /\ result[s] # "validation"
isUpdating(s) == op[s].kind = "update" /\ result[s] # "validation"

\* The Save button of the dialog: disabled={isCreating}.
SaveDisabled(s) == isCreating(s)

\* The clear call issued without await: both calls in flight at once.
FirstCalls_NoAwait(o) ==
    IF Promotes(o) THEN <<"pending", "pending">> ELSE <<"none", "pending">>

\* What mutationFn does before its first await: the calls it puts in flight.
\* <<clear, main>> call states.
FirstCalls(o) ==
    IF Promotes(o) THEN <<"pending", "none">> ELSE <<"none", "pending">>

\* After `await supabase...update({ is_default: false })`: the result of the
\* clear call is not looked at, and the next call is issued.
AfterClear(ok) == "pending"

\* The title of the toast of onSuccess / onError (setDefault has no onError).
SuccessToast(kind) ==
    CASE kind = "create" -> "Address saved"
      [] kind = "update" -> "Address updated"
      [] kind = "delete" -> "Address removed"
      [] OTHER -> "Default address updated"

ErrorToast(kind) ==
    CASE kind = "create" -> "Failed to save address"
      [] kind = "update" -> "Failed to update address"
      [] kind = "delete" -> "Failed to delete address"
      [] OTHER -> "none"

\* The toast an ended invocation shows.
ToastOf(o, res) ==
    CASE res = "validation" -> "Address required"
      [] res = "success" -> SuccessToast(o.kind)
      [] res \in {"error", "unauthenticated"} -> ErrorToast(o.kind)
      [] OTHER -> "none"

\* The check that lets every invocation through.
Authenticated_Always(u) == TRUE

\* `if (!user) throw new Error('User not authenticated')`
Authenticated(u) == u # NoUser

\* mutationFn up to its first await, for invocation o of session s.
BeginMutation(s, o) ==
    /\ op' = [op EXCEPT ![s] = o]
    /\ before' = [before EXCEPT ![s] = DefaultIds(rows, o.user)]
    /\ IF ~Authenticated(o.user)
          THEN \* throw new Error('User not authenticated')
               /\ clearRes' = [clearRes EXCEPT ![s] = "none"]
               /\ mainRes' = [mainRes EXCEPT ![s] = "none"]
               /\ result' = [result EXCEPT ![s] = "unauthenticated"]
          ELSE /\ clearRes' = [clearRes EXCEPT ![s] = FirstCalls(o)[1]]
               /\ mainRes' = [mainRes EXCEPT ![s] = FirstCalls(o)[2]]
               /\ result' = [result EXCEPT ![s] = "none"]
    /\ UNCHANGED <<rows, nextId, now>>
    /\ UNCHANGED uiVars
    /\ UNCHANGED rentVars

\* The check without trim: `!fullAddress`.
IsBlank_NoTrim(text) == text = <<>>

\* The local check of handleSaveAddress: `!fullAddress.trim()`.
IsBlank(text) == Trim(text) = <<>>

\* ---------------------------------------------------------------- actions
Init ==
    /\ rows = {}
    /\ nextId = 1
    /\ now = 0
    /\ op = [s \in Sessions |-> NoOp]
    /\ clearRes = [s \in Sessions |-> "none"]
    /\ mainRes = [s \in Sessions |-> "none"]
    /\ result = [s \in Sessions |-> "none"]
    /\ before = [s \in Sessions |-> {}]
    /\ addresses = <<>>
    /\ query = "idle"
    /\ selectedAddressId = NoId
    /\ showManualInput = FALSE
    /\ rules = {}
    /\ rentOp = NoRentOp
    /\ rentCall = "none"
    /\ rentResult = "none"

\* The callbacks of an ended invocation (onSuccess / onError) run as soon as
\* mutationFn ends and touch nothing another session reads: they are taken
\* before any other session issues a call.
AllSettled == \A t \in Sessions : result[t] = "none"

\* New invocations start only while the clock and the id space have room.
CanStart(s) == op[s] = NoOp /\ AllSettled /\ now < MaxClock

\* An id that no row ever has.
NeverId == MaxAddr + 1
\* The ids a caller can name: those handed out so far, and one that never
\* existed.
KnownIds == (1..(nextId - 1)) \cup {NeverId}

CreatesInFlight == Cardinality({t \in Sessions : Pending(t) /\ op[t].kind = "create"})

\* The Save button of the address dialog.
handleSaveAddress(s, U) ==
    /\ CanStart(s)
    /\ \E u \in U, editing \in {NoId} \cup KnownIds,
          text \in Texts, dflt \in BOOLEAN :
        LET o == [kind |-> IF editing # NoId THEN "update" ELSE "create",
                  user |-> u, id |-> editing,
                  full_address |-> text, is_default |-> dflt]
        IN  IF IsBlank(text)
              THEN \* toast 'Address required'; return
                   /\ op' = [op EXCEPT ![s] = o]
                   /\ clearRes' = [clearRes EXCEPT ![s] = "none"]
                   /\ mainRes' = [mainRes EXCEPT ![s] = "none"]
                   /\ result' = [result EXCEPT ![s] = "validation"]
                   /\ before' = [before EXCEPT ![s] = DefaultIds(rows, o.user)]
                   /\ UNCHANGED <<rows, nextId, now>>
                   /\ UNCHANGED uiVars
                   /\ UNCHANGED rentVars
              ELSE /\ o.kind = "create" => nextId + CreatesInFlight <= MaxAddr
                   /\ BeginMutation(s, o)

\* The delete button of an address card: deleteAddress(address.id).
deleteAddress(s, U) ==
    /\ CanStart(s)
    /\ \E u \in U, id \in KnownIds :
        BeginMutation(s, [kind |-> "delete", user |-> u, id |-> id,
                          full_address |-> <<>>, is_default |-> FALSE])

\* setDefaultAddress(id)
setDefaultAddress(s, U) ==
    /\ CanStart(s)
    /\ \E u \in U, id \in KnownIds :
        BeginMutation(s, [kind |-> "setDefault", user |-> u, id |-> id,
                          full_address |-> <<>>, is_default |-> TRUE])

\* The clear-defaults call of session s returns: applied, or failed with no
\* effect.  Either way mutationFn goes on to its next call.
ClearReturn(s) ==
    /\ clearRes[s] = "pending"
    /\ AllSettled
    /\ \E ok \in BOOLEAN :
        /\ clearRes' = [clearRes EXCEPT ![s] = IF ok THEN "ok" ELSE "fail"]
        /\ rows' = IF ok
                     THEN ClearDefaults(rows, op[s].user, op[s].user, ClearExcept(op[s]))
                     ELSE rows
        /\ mainRes' = [mainRes EXCEPT ![s] = AfterClear(ok)]
    /\ UNCHANGED <<nextId, now, op, result, before>>
    /\ UNCHANGED uiVars
    /\ UNCHANGED rentVars

\* The table after the insert / update / delete of invocation o is applied.
ApplyMain(rs, o, newId, ts) ==
    CASE o.kind = "create" ->
            InsertRow(rs, newId, o.user, o.full_address, o.is_default, ts)
      [] o.kind = "update" ->
            PatchRow(rs, o.user, o.id, o.user, o.full_address, o.is_default, ts)
      [] o.kind = "delete" -> DeleteRow(rs, o.user, o.id, o.user)
      [] OTHER -> PromoteRow(rs, o.user, o.id, o.user, ts)

\* delete chained with .select().single() as update is.
SingleFails_AlsoDelete(rs, o) ==
    o.kind \in {"update", "delete"}
        /\ Cardinality(Matching(rs, o.user, o.id, o.user)) # 1

\* .select().single() of update: an error unless exactly one row comes back.
\* (create's .single() always sees the one inserted row.)
SingleFails(rs, o) ==
    o.kind = "update" /\ Cardinality(Matching(rs, o.user, o.id, o.user)) # 1

\* The insert / update / delete call of session s returns, and mutationFn
\* ends: `if (error) throw error`, then onSuccess or onError.
MainReturn(s) ==
    /\ mainRes[s] = "pending"
    /\ \E ok \in BOOLEAN :
        LET o == op[s]
            res == IF ~ok THEN "fail"
                   ELSE IF SingleFails(rows, o) THEN "norows" ELSE "ok"
        IN  /\ mainRes' = [mainRes EXCEPT ![s] = res]
            /\ rows' = IF ok THEN ApplyMain(rows, o, nextId, now + 1) ELSE rows
            /\ nextId' = IF ok /\ o.kind = "create" THEN nextId + 1 ELSE nextId
            /\ now' = IF ok /\ o.kind # "delete" THEN now + 1 ELSE now
            /\ result' = [result EXCEPT ![s] =
                             IF res = "ok" THEN "success" ELSE "error"]
    /\ UNCHANGED <<op, clearRes, before>>
    /\ UNCHANGED uiVars
    /\ UNCHANGED rentVars

\* Every callback invalidates, onError too.
Invalidates_OnErrorToo(res) == res \in {"success", "error"}

\* queryClient.invalidateQueries(...) is called by onSuccess only.
Invalidates(res) == res = "success"

\* onSuccess / onError have run and the mutation is settled: the session is
\* idle again.  onSuccess invalidates the list query of its own query
\* client, and an invalidated query with an observer is fetched again.
Settle(s) ==
    /\ result[s] # "none"
    /\ op' = [op EXCEPT ![s] = NoOp]
    /\ clearRes' = [clearRes EXCEPT ![s] = "none"]
    /\ mainRes' = [mainRes EXCEPT ![s] = "none"]
    /\ result' = [result EXCEPT ![s] = "none"]
    /\ before' = [before EXCEPT ![s] = {}]
    /\ query' = IF s = Tab /\ Invalidates(result[s]) THEN "fetching" ELSE query
    /\ UNCHANGED <<rows, nextId, now>>
    /\ UNCHANGED <<addresses, selectedAddressId, showManualInput>>
    /\ UNCHANGED rentVars

\* A local patch of the working copy where the fetched list was meant:
\* the rows not yet shown are appended, the rows shown stay as they are.
Refetched_Patched(old, fetched) ==
    old \o SelectSeq(fetched,
                     LAMBDA r : \A i \in 1..Len(old) : old[i].id # r.id)

\* The query data after a fetch: the list the server returned replaces
\* the old one.
Refetched(old, fetched) == fetched

\* The list query of the watched selector returns: its data replaces the
\* working copy and the initial-selection effect runs; or the fetch fails
\* and the data stays.
FetchReturn ==
    /\ query = "fetching"
    /\ \E ok \in BOOLEAN, u \in SameOwner :
        IF ok
          THEN /\ addresses' = Refetched(addresses, queryFn(u))
               /\ query' = "idle"
               /\ selectedAddressId' = useEffect(addresses', selectedAddressId)
          ELSE /\ query' = "error"
               /\ UNCHANGED <<addresses, selectedAddressId>>
    /\ UNCHANGED showManualInput
    /\ UNCHANGED storeVars
    /\ UNCHANGED rentVars

\* A click on an address card or on "Enter a new address".
handleSelectAddress ==
    /\ Len(addresses) > 0
    /\ \E addressId \in {addresses[i].id : i \in 1..Len(addresses)} \cup {NewChoice} :
        IF addressId = NewChoice
          THEN /\ showManualInput' = TRUE
               /\ selectedAddressId' = useEffect(addresses, NoId)
          ELSE /\ showManualInput' = FALSE
               /\ selectedAddressId' = useEffect(addresses, addressId)
    /\ UNCHANGED <<addresses, query>>
    /\ UNCHANGED storeVars
    /\ UNCHANGED rentVars

\* Concurrent invocations (two tabs, or a second mutate before the first ends).
Next ==
    \E s \in Sessions :
        \/ handleSaveAddress(s, AuthOf(s))
        \/ deleteAddress(s, AuthOf(s))
        \/ setDefaultAddress(s, AuthOf(s))
        \/ ClearReturn(s)
        \/ MainReturn(s)
        \/ Settle(s)

Spec == Init /\ [][Next]_vars

\* Sequential invocations: one starts only when every other has ended.
NextSeq ==
    \E s \in Sessions :
        \/ Quiet /\ handleSaveAddress(s, AuthOf(s))
        \/ Quiet /\ deleteAddress(s, AuthOf(s))
        \/ Quiet /\ setDefaultAddress(s, AuthOf(s))
        \/ ClearReturn(s)
        \/ MainReturn(s)
        \/ Settle(s)

SeqSpec == Init /\ [][NextSeq]_vars

\* Concurrent create, update and setDefault invocations of one owner: both
\* tabs are signed in as u1.
NextConc ==
    \E s \in Sessions :
        \/ handleSaveAddress(s, SameOwner)
        \/ setDefaultAddress(s, SameOwner)
        \/ ClearReturn(s)
        \/ MainReturn(s)
        \/ Settle(s)

ConcSpec == Init /\ [][NextConc]_vars

\* One tab of one owner with its selector: invocations one at a time, the
\* list query, and the clicks on the address cards.
NextUi ==
    \/ Quiet /\ handleSaveAddress(Tab, SameOwner)
    \/ Quiet /\ deleteAddress(Tab, SameOwner)
    \/ Quiet /\ setDefaultAddress(Tab, SameOwner)
    \/ ClearReturn(Tab)
    \/ MainReturn(Tab)
    \/ Settle(Tab)
    \/ FetchReturn
    \/ handleSelectAddress

UiSpec == Init /\ [][NextUi]_vars

\* The tab's invocations and its list query, without the clicks on the
\* cards.  The list query returns once it is in flight.
NextFetch ==
    \/ Quiet /\ handleSaveAddress(Tab, SameOwner)
    \/ Quiet /\ deleteAddress(Tab, SameOwner)
    \/ Quiet /\ setDefaultAddress(Tab, SameOwner)
    \/ ClearReturn(Tab)
    \/ MainReturn(Tab)
    \/ Settle(Tab)
    \/ FetchReturn

FetchSpec == Init /\ [][NextFetch]_vars /\ WF_vars(FetchReturn)

\* deriveInitialSelection as a function of its argument: the argument is any
\* sequence of addresses of one owner with distinct ids, in any order, and
\* the initial-selection effect applies the function to it.
ArgRows ==
    {[id |-> i, user_id |-> u, full_address |-> <<"a">>, is_default |-> d,
      created_at |-> t, updated_at |-> t] :
        i \in AddrIds, u \in SameOwner, d \in BOOLEAN, t \in 1..MaxClock}

ArgLists ==
    {l \in UNION {[1..n -> ArgRows] : n \in 0..MaxAddr} :
        \A i, j \in 1..Len(l) : i # j => l[i].id # l[j].id}

InitDerive ==
    /\ rows = {}
    /\ nextId = 1
    /\ now = 0
    /\ op = [s \in Sessions |-> NoOp]
    /\ clearRes = [s \in Sessions |-> "none"]
    /\ mainRes = [s \in Sessions |-> "none"]
    /\ result = [s \in Sessions |-> "none"]
    /\ before = [s \in Sessions |-> {}]
    /\ addresses \in ArgLists
    /\ query = "idle"
    /\ selectedAddressId = NoId
    /\ showManualInput = FALSE
    /\ rules = {}
    /\ rentOp = NoRentOp
    /\ rentCall = "none"
    /\ rentResult = "none"

\* The initial-selection effect on its own: the render after the list
\* arrived.
InitialSelection ==
    /\ selectedAddressId' = useEffect(addresses, selectedAddressId)
    /\ selectedAddressId' # selectedAddressId
    /\ UNCHANGED <<addresses, query, showManualInput>>
    /\ UNCHANGED storeVars
    /\ UNCHANGED rentVars

NextDerive == InitialSelection

DeriveSpec == InitDerive /\ [][NextDerive]_vars

\* ------------------------------------------------- vehicle rent rules
\* Texts typed into the minimum-rent field.
RentTexts == {<<>>, <<"0">>, <<"5">>, <<"-", "0">>, <<"-", "5">>, <<"-">>,
              <<"x">>, <<"5", "x">>}
Digits == <<"0", "1", "2", "3", "4", "5", "6", "7", "8", "9">>
IsDigit(c) == \E d \in 1..10 : Digits[d] = c
DigitVal(c) == (CHOOSE d \in 1..10 : Digits[d] = c) - 1
\* A JavaScript number: NaN, or a value.
NaN == [nan |-> TRUE, value |-> 0]
Num(n) == [nan |-> FALSE, value |-> n]
\* x < n: false when x is NaN.
LessThan(x, n) == ~x.nan /\ x.value < n

\* A valid floating-point number as the number field takes it: an optional
\* minus sign and one or more digits.
ValidFloat(t) ==
    LET body == IF t # <<>> /\ Head(t) = "-" THEN Tail(t) ELSE t
    IN  body # <<>> /\ \A i \in 1..Len(body) : IsDigit(body[i])

\* <Input type="number">: the value is the typed text when that is a valid
\* number, and the empty string otherwise.
NumberInputValue(t) == IF ValidFloat(t) THEN t ELSE <<>>

\* The value of the longest prefix of digits.
RECURSIVE DigitsPrefix(_, _)
DigitsPrefix(t, acc) ==
    IF t = <<>> \/ ~IsDigit(Head(t)) THEN acc
    ELSE DigitsPrefix(Tail(t), 10 * acc + DigitVal(Head(t)))

\* parseFloat: leading blanks skipped, an optional sign, then the longest
\* prefix of digits; NaN when there is no digit.
parseFloat(t) ==
    LET s == TrimStart(t)
        neg == s # <<>> /\ Head(s) = "-"
        body == IF neg THEN Tail(s) ELSE s
    IN  IF body = <<>> \/ ~IsDigit(Head(body)) THEN NaN
        ELSE IF neg THEN Num(0 - DigitsPrefix(body, 0))
        ELSE Num(DigitsPrefix(body, 0))

isNaN(x) == x.nan

\* The check that lets a negative amount through.
RentInvalid_NoSignCheck(minimumRent) == isNaN(parseFloat(minimumRent))

\* `isNaN(rentAmount) || rentAmount < 0`
RentInvalid(minimumRent) ==
    isNaN(parseFloat(minimumRent)) \/ LessThan(parseFloat(minimumRent), 0)

\* `!vehicleType.trim() || !minimumRent`
RentMissing(vehicleType, minimumRent) ==
    Trim(vehicleType) = <<>> \/ minimumRent = <<>>

\* rules?.reduce((max, r) => Math.max(max, r.display_order), 0) || 0
maxOrder(rs) ==
    IF rs = {} THEN 0
    ELSE CHOOSE n \in {r.display_order : r \in rs} :
            \A r \in rs : r.display_order <= n

\* The Save button of the rule dialog: saveMutation.mutate() with the form
\* as it is.  The form is what the user typed, or what openEditDialog put
\* there for a listed rule.
saveMutation ==
    /\ rentOp = NoRentOp
    /\ \E typed \in RentTexts, vehicleType \in Texts, isActive \in BOOLEAN,
          editingRule \in {NoId} \cup {r.id : r \in rules} :
        LET minimumRent == NumberInputValue(typed)
        IN  /\ rentOp' = [typed |-> typed, vehicleType |-> vehicleType,
                          minimumRent |-> minimumRent, isActive |-> isActive,
                          editingRule |-> editingRule, pressed |-> TRUE]
            /\ IF RentMissing(vehicleType, minimumRent)
                  THEN \* throw new Error('Please fill all required fields')
                       /\ rentCall' = "none"
                       /\ rentResult' = "validation"
                  ELSE IF RentInvalid(minimumRent)
                  THEN \* throw new Error('Invalid rent amount')
                       /\ rentCall' = "none"
                       /\ rentResult' = "validation"
                  ELSE /\ editingRule = NoId => Cardinality(rules) < MaxAddr
                       /\ rentCall' = "pending"
                       /\ rentResult' = "none"
    /\ UNCHANGED rules
    /\ UNCHANGED addressVars

\* The table after the update or the insert of the form o is applied.
ApplyRule(rs, o) ==
    IF o.editingRule # NoId
      THEN {IF r.id = o.editingRule
              THEN [r EXCEPT !.vehicle_type = Trim(o.vehicleType),
                             !.minimum_rent = parseFloat(o.minimumRent).value,
                             !.is_active = o.isActive]
              ELSE r : r \in rs}
      ELSE rs \cup {[id |-> Cardinality(rs) + 1,
                     vehicle_type |-> Trim(o.vehicleType),
                     minimum_rent |-> parseFloat(o.minimumRent).value,
                     is_active |-> o.isActive,
                     display_order |-> maxOrder(rs) + 1]}

\* The update or insert call of saveMutation returns: `if (error) throw error`.
RentReturn ==
    /\ rentCall = "pending"
    /\ \E ok \in BOOLEAN :
        /\ rentCall' = IF ok THEN "ok" ELSE "fail"
        /\ rules' = IF ok THEN ApplyRule(rules, rentOp) ELSE rules
        /\ rentResult' = IF ok THEN "success" ELSE "error"
    /\ UNCHANGED rentOp
    /\ UNCHANGED addressVars

\* onSuccess / onError of saveMutation have run.
RentSettle ==
    /\ rentResult # "none"
    /\ rentOp' = NoRentOp
    /\ rentCall' = "none"
    /\ rentResult' = "none"
    /\ UNCHANGED rules
    /\ UNCHANGED addressVars

NextRent == saveMutation \/ RentReturn \/ RentSettle

RentSpec == Init /\ [][NextRent]_vars

TypeOK ==
    /\ \A r \in rows : r.id \in AddrIds /\ r.user_id \in Users
    /\ \A r1, r2 \in rows : r1.id = r2.id => r1 = r2
    /\ nextId \in 1..(MaxAddr + 1)

\* ------------------------------------------------------------------ claims

\* C1: in a sequential run from a table with at most one default per owner,
\* the owner has at most one default row after every create, update or
\* setDefault that completes successfully, whatever its remote calls did.
C1_AtMostOneDefaultAfterSuccess ==
    \A s \in Sessions :
        (result[s] = "success" /\ op[s].kind \in {"create", "update", "setDefault"}
            /\ Cardinality(before[s]) <= 1)
          => Cardinality(DefaultsOf(rows, op[s].user)) <= 1

\* The row an invocation inserts or names.
TargetId(o) == IF o.kind = "create" THEN nextId ELSE o.id

\* C2: two concurrent promoting invocations can both complete successfully
\* and leave the owner with two defaults.  A successful clear call leaves
\* the owner no default except the row update excludes, and a set call adds
\* no default but its own target: so a second default found after an
\* invocation whose clear and set both succeeded was written by the other
\* invocation in between.
C2_SecondDefaultOnlyByOverlap ==
    [][\A s \in Sessions :
        /\ (clearRes[s] = "pending" /\ clearRes'[s] = "ok")
              => DefaultIds(rows', op[s].user) \subseteq {ClearExcept(op[s])}
        /\ (mainRes[s] = "pending" /\ mainRes'[s] # "pending")
              => DefaultIds(rows', op[s].user)
                    \subseteq DefaultIds(rows, op[s].user) \cup {TargetId(op[s])}
      ]_vars

\* C2's case: both sessions have completed a promoting invocation of u1
\* successfully, every remote call of both succeeded, and u1 has two default
\* rows.
C2_Witness ==
    /\ \A s \in Sessions :
          /\ result[s] = "success" /\ Promotes(op[s]) /\ op[s].user = "u1"
          /\ clearRes[s] = "ok" /\ mainRes[s] = "ok"
    /\ Cardinality(DefaultsOf(rows, "u1")) = 2

\* The id names a row of another owner.
ForeignId(o) == \E r \in rows : r.id = o.id /\ r.user_id # o.user

\* C3: update(ownerA, id of a row of owner B, patch) fails with a not-found
\* error and no step of the invocation changes any row.
C3_ForeignUpdateChangesNothing ==
    [][\A s \in Sessions :
        (op[s].kind = "update" /\ op[s].user # NoUser /\ Pending(s)
            /\ ForeignId(op[s]))
          => /\ rows' = rows
             /\ result'[s] \in {"none", "error"}
      ]_vars

\* C4: in create and setDefault, when the set call fails after the clear call
\* succeeded, the owner has no default row and the invocation has ended in
\* error with no further call in flight.
C4_NoDefaultAfterFailedSet ==
    \A s \in Sessions :
        (op[s].kind \in {"create", "setDefault"} /\ Promotes(op[s])
            /\ clearRes[s] = "ok" /\ mainRes[s] = "fail")
          => /\ DefaultsOf(rows, op[s].user) = {}
             /\ result[s] = "error"
             /\ ~Pending(s)

\* C4's case: the owner had a default when the invocation started, the
\* clear call succeeded, the set call failed, and the default is gone.
C4_Witness ==
    \E s \in Sessions :
        /\ op[s].kind \in {"create", "setDefault"} /\ Promotes(op[s])
        /\ clearRes[s] = "ok" /\ mainRes[s] = "fail"
        /\ before[s] # {}
        /\ DefaultsOf(rows, op[s].user) = {}

\* C5: no invocation reports success after one of its remote calls failed.
C5_NoSuccessAfterFailedCall ==
    \A s \in Sessions :
        result[s] = "success"
            => clearRes[s] # "fail" /\ mainRes[s] \notin {"fail", "norows"}

\* Empty, or nothing but spaces.
OnlySpaces(text) == \A i \in 1..Len(text) : text[i] = " "

\* C6: a create whose full address is empty or whitespace-only ends with a
\* validation error and never has a remote call in flight, with
\* is_default = true too.
C6_BlankCreateIssuesNoCall ==
    \A s \in Sessions :
        (op[s].kind = "create" /\ OnlySpaces(op[s].full_address))
          => /\ result[s] = "validation"
             /\ clearRes[s] = "none"
             /\ mainRes[s] = "none"

C6_Witness ==
    \E s \in Sessions :
        /\ op[s].kind = "create" /\ op[s].full_address = <<" ">>
        /\ op[s].is_default
        /\ result[s] = "validation"

\* C7: in one invocation the clear call and the set call are never in flight
\* together, and the set call of a promoting invocation is issued only after
\* its clear call has returned.
C7_ClearReturnsBeforeSetIssued ==
    \A s \in Sessions :
        /\ ~(clearRes[s] = "pending" /\ mainRes[s] = "pending")
        /\ clearRes[s] = "pending" => mainRes[s] = "none"
        /\ (Promotes(op[s]) /\ mainRes[s] # "none") => clearRes[s] \in {"ok", "fail"}

C7_Witness ==
    \E s \in Sessions :
        /\ Promotes(op[s]) /\ op[s].kind \in {"create", "update", "setDefault"}
        /\ clearRes[s] \in {"ok", "fail"}
        /\ mainRes[s] = "pending"

\* C8: during update(owner, id, patch) with is_default = true, the clear step
\* leaves row id as it is, and a row id that is the default stays the default
\* through every step of the invocation.
C8_UpdateNeverClearsTarget ==
    [][\A s \in Sessions :
        (op[s].kind = "update" /\ op[s].is_default /\ Pending(s))
          => /\ clearRes[s] = "pending"
                  => \A r \in rows : r.id = op[s].id => r \in rows'
             /\ op[s].id \in DefaultIds(rows, op[s].user)
                  => op[s].id \in DefaultIds(rows', op[s].user)
      ]_vars

\* C8's case: the target was the default when the update started, the
\* clear call has been applied, the owner has another row, and the target is
\* still the default.
C8_Witness ==
    \E s \in Sessions :
        /\ op[s].kind = "update" /\ op[s].is_default
        /\ clearRes[s] = "ok" /\ mainRes[s] = "pending"
        /\ op[s].id \in before[s]
        /\ op[s].id \in DefaultIds(rows, op[s].user)
        /\ \E r \in RowsOf(rows, op[s].user) : r.id # op[s].id

\* The owner has exactly the rows a (older, the default when the invocation
\* of session s started) and b (newer, not default then), and the invocation
\* names b.
TwoRowsCase(s, a, b) ==
    /\ RowsOf(rows, op[s].user) = {a, b}
    /\ a.id # b.id /\ b.id = op[s].id
    /\ a.created_at < b.created_at
    /\ before[s] = {a.id}

\* C9: with addresses A (older) and B (newer) of one owner, setDefault(B)
\* whose calls all succeed ends with A not default, B default, and the list
\* query returning [B, A].
C9_SetDefaultThenList ==
    \A s \in Sessions :
        (op[s].kind = "setDefault" /\ result[s] = "success" /\ clearRes[s] = "ok")
          => \A a, b \in rows :
                TwoRowsCase(s, a, b)
                  => /\ ~a.is_default
                     /\ b.is_default
                     /\ queryFn(op[s].user) = <<b, a>>

C9_Witness ==
    \E s \in Sessions :
        /\ op[s].kind = "setDefault" /\ result[s] = "success" /\ clearRes[s] = "ok"
        /\ \E a, b \in rows :
              /\ TwoRowsCase(s, a, b)
              /\ queryFn(op[s].user) = <<b, a>>

\* C10: a delete whose id matches no row of the owner (never existed, deleted
\* before, or another owner's) changes no row and ends in success unless the
\* call itself failed; after a successful delete the id matches no row, so a
\* second delete is that no-op.
C10_DeleteIsIdempotent ==
    /\ [][\A s \in Sessions :
            (op[s].kind = "delete" /\ mainRes[s] = "pending"
                /\ Matching(rows, op[s].user, op[s].id, op[s].user) = {})
              => /\ rows' = rows
                 /\ mainRes'[s] = "ok" => result'[s] = "success"
                 /\ mainRes'[s] \in {"pending", "ok", "fail"}
         ]_vars
    /\ [](\A s \in Sessions :
            (op[s].kind = "delete" /\ result[s] = "success")
              => Matching(rows, op[s].user, op[s].id, op[s].user) = {})

C10_Witness ==
    \E s \in Sessions :
        /\ op[s].kind = "delete" /\ result[s] = "success"
        /\ ForeignId(op[s])
        /\ RowsOf(rows, op[s].user) # {}

\* The positions of the default-flagged elements of a list.
DefaultPositions(list) == {i \in 1..Len(list) : list[i].is_default}

\* C11: the initial selection derived from an address sequence is none for
\* the empty sequence, the default-flagged element at the least position
\* when there is one, whatever that position, and the first element
\* otherwise; the effect selects exactly that element.
C11_InitialSelection ==
    LET d == deriveInitialSelection(addresses)
        P == DefaultPositions(addresses)
    IN  /\ addresses = <<>> => d = NoAddress
        /\ P # {} => \E i \in P : d = addresses[i] /\ \A j \in P : i <= j
        /\ (addresses # <<>> /\ P = {}) => d = addresses[1]
        /\ selectedAddressId \in {NoId, d.id}

\* C11's case: the only default-flagged element is not the first of
\* several, and the effect has selected it.
C11_Witness ==
    /\ Len(addresses) >= 2
    /\ DefaultPositions(addresses) = {Len(addresses)}
    /\ selectedAddressId = addresses[Len(addresses)].id

\* C12: the list query of an owner returns exactly the owner's rows, each
\* once, every default row before every other row, and within each group
\* the later created first.
C12_ListIsOwnersSorted ==
    \A u \in Users :
        LET l == queryFn(u)
        IN  /\ {l[i] : i \in 1..Len(l)} = RowsOf(rows, u)
            /\ Len(l) = Cardinality(RowsOf(rows, u))
            /\ \A i, j \in 1..Len(l) :
                  i < j => /\ l[i].is_default \/ ~l[j].is_default
                           /\ l[i].is_default = l[j].is_default
                                 => l[i].created_at >= l[j].created_at

\* C12's case: the owner's default is older than another row of the owner
\* and still comes first, while the table holds two rows.
C12_Witness ==
    \E u \in Users :
        LET l == queryFn(u)
        IN  /\ Len(l) = 2
            /\ l[1].is_default /\ ~l[2].is_default
            /\ l[1].created_at < l[2].created_at

\* C13: with no resolved identity the list is empty, an invocation ends
\* with the unauthenticated error (or, from the dialog with a blank address,
\* with the validation error) without a remote call ever in flight, and no
\* row changes.
C13_UnauthenticatedIssuesNoCall ==
    /\ [](queryFn(NoUser) = <<>>)
    /\ [](\A s \in Sessions :
            (op[s] # NoOp /\ op[s].user = NoUser)
              => /\ clearRes[s] = "none" /\ mainRes[s] = "none"
                 /\ result[s] =
                       IF op[s].kind \in {"create", "update"}
                            /\ OnlySpaces(op[s].full_address)
                         THEN "validation" ELSE "unauthenticated")
    /\ [][\A s \in Sessions :
            (op'[s] # NoOp /\ op'[s].user = NoUser) => rows' = rows]_vars

\* C13's case: a delete naming an existing row, with no identity, has
\* ended with the unauthenticated error.
C13_Witness ==
    \E s \in Sessions :
        /\ op[s].kind = "delete" /\ op[s].user = NoUser
        /\ \E r \in rows : r.id = op[s].id
        /\ result[s] = "unauthenticated"

\* C14 as stated: every update call in flight names the row and the owner.
C14_EveryUpdateNamesRowAndOwner ==
    \A s \in Sessions : \A f \in UpdateCalls(s) :
        f.eq_user_id # NoUser /\ f.eq_id # NoId

\* C14 as amended: every update call in flight names the owner; the update
\* that writes the named row names the row too, and changes no other row;
\* the clear-defaults update names the owner only (in update, it excludes
\* the named row) and changes rows of that owner only.
C14_UpdateFiltersNameOwner ==
    /\ [](\A s \in Sessions :
            /\ \A f \in UpdateCalls(s) :
                  f.eq_user_id = op[s].user /\ f.eq_user_id # NoUser
            /\ clearRes[s] = "pending"
                  => /\ ClearFilter(op[s]).eq_id = NoId
                     /\ ClearFilter(op[s]).neq_id =
                           IF op[s].kind = "update" THEN op[s].id ELSE NoId
            /\ (mainRes[s] = "pending" /\ op[s].kind \in {"update", "setDefault"})
                  => MainFilter(op[s]).eq_id = op[s].id)
    /\ [][\A s \in Sessions : \A r \in rows \ rows' :
            /\ clearRes[s] = "pending" /\ clearRes'[s] # "pending"
                  => FilterMatches(ClearFilter(op[s]), r)
            /\ (mainRes[s] = "pending" /\ mainRes'[s] # "pending"
                    /\ op[s].kind \in {"update", "setDefault"})
                  => FilterMatches(MainFilter(op[s]), r)
         ]_vars

\* C14's case: an update of a row is being written while the owner has
\* another row, and a clear-defaults call that names the owner only has been
\* applied before it.
C14_Witness ==
    \E s \in Sessions :
        /\ op[s].kind = "update" /\ clearRes[s] = "ok" /\ mainRes[s] = "ok"
        /\ Cardinality(RowsOf(rows, op[s].user)) = 2
        /\ \E r \in rows : r.id = op[s].id /\ r.updated_at = now

\* C15: every write that changes an existing row refreshes its updated_at,
\* and leaves its created_at as it was.
C15_WritesRefreshUpdatedAt ==
    [][\A r \in rows, q \in rows' :
        (r.id = q.id /\ r # q)
          => /\ q.updated_at > r.updated_at
             /\ q.created_at = r.created_at
      ]_vars

\* A step of an invocation of session s other than the run of onSuccess.
FailableStep(s) ==
    /\ \/ op'[s] # op[s]
       \/ clearRes'[s] # clearRes[s]
       \/ mainRes'[s] # mainRes[s]
       \/ result'[s] # result[s]
    /\ ~(result[s] = "success" /\ result'[s] = "none")

\* C16: no step of an invocation changes the working copy of the list or the
\* selection, and none but the run of onSuccess sets the list query off:
\* an invocation that fails leaves what the selector shows as it was.
C16_FailureLeavesListAndSelection ==
    [][\A s \in Sessions :
        /\ FailableStep(s) => UNCHANGED uiVars
        /\ (result[s] # "none" /\ result'[s] = "none")
              => UNCHANGED <<addresses, selectedAddressId, showManualInput>>
      ]_vars

\* C16's case: an invocation has failed after its clear call was applied,
\* and the selector still shows, and has selected, the default the store no
\* longer has, with no fetch on its way.
C16_Witness ==
    /\ result[Tab] = "error" /\ clearRes[Tab] = "ok"
    /\ query = "idle"
    /\ \E i \in 1..Len(addresses) :
          /\ addresses[i].is_default
          /\ selectedAddressId = addresses[i].id
    /\ DefaultsOf(rows, op[Tab].user) = {}

\* C17: the run of onSuccess sets the list query off; the working copy
\* changes only when the query returns, to the list the store then gives;
\* and a query set off returns.
C17_InvalidatedAndRefetched ==
    /\ [][(result[Tab] = "success" /\ result'[Tab] = "none")
              => query' = "fetching"]_vars
    /\ [][addresses' # addresses
              => /\ query = "fetching" /\ query' = "idle"
                 /\ rows' = rows
                 /\ \E u \in SameOwner : addresses' = queryFn(u)]_vars
    /\ (query = "fetching") ~> (query # "fetching")

\* C17's case: after two successful creates the working copy is the list
\* of the two rows.
C17_Witness ==
    /\ query = "idle"
    /\ Len(addresses) = 2
    /\ \E u \in SameOwner : addresses = queryFn(u)

\* C18: while a call of a create or update invocation is in flight, the
\* Save button of the dialog is disabled.
C18_SaveDisabledWhileInFlight ==
    \A s \in Sessions :
        (op[s].kind \in {"create", "update"} /\ Pending(s)) => SaveDisabled(s)

\* C19: create with is_default = true for an owner without rows has its
\* clear call in flight before the insert is issued, the clear call changes
\* no row, and the insert leaves the owner exactly one row, a default.
C19_FirstDefaultCreate ==
    /\ [](\A s \in Sessions :
            (op[s].kind = "create" /\ op[s].is_default /\ mainRes[s] # "none")
              => clearRes[s] \in {"ok", "fail"})
    /\ [][\A s \in Sessions :
            (op[s].kind = "create" /\ op[s].is_default
                /\ RowsOf(rows, op[s].user) = {})
              => /\ (clearRes[s] = "pending" /\ clearRes'[s] # "pending")
                    => rows' = rows /\ mainRes[s] = "none"
                 /\ (mainRes[s] = "pending" /\ mainRes'[s] = "ok")
                    => /\ Cardinality(RowsOf(rows', op[s].user)) = 1
                       /\ \A r \in RowsOf(rows', op[s].user) : r.is_default
                       /\ result'[s] = "success"
         ]_vars

\* C19's case: the create has succeeded after a clear call that was
\* applied to an owner without rows, and the owner has one row.
C19_Witness ==
    \E s \in Sessions :
        /\ op[s].kind = "create" /\ op[s].is_default
        /\ clearRes[s] = "ok" /\ result[s] = "success"
        /\ before[s] = {}
        /\ Cardinality(RowsOf(rows, op[s].user)) = 1
        /\ rows # RowsOf(rows, op[s].user)

\* The typed minimum rent is not a number: nothing, a lone sign, or some
\* character that is neither a digit nor a leading sign.
NonNumeric(t) ==
    \/ t = <<>>
    \/ t = <<"-">>
    \/ \E i \in 1..Len(t) : ~IsDigit(t[i]) /\ ~(i = 1 /\ t[i] = "-")

\* The typed minimum rent is a number below zero.
Negative(t) ==
    /\ Len(t) >= 2 /\ t[1] = "-"
    /\ \A i \in 2..Len(t) : IsDigit(t[i])
    /\ \E i \in 2..Len(t) : t[i] # "0"

\* C20: a save of a rent rule whose vehicle type is blank, or whose minimum
\* rent is missing, not a number or negative, ends with a validation error
\* with no call ever in flight and no row changed; and a save that ended
\* with a validation error has issued no call.
C20_InvalidRuleIssuesNoCall ==
    /\ [](rentOp.pressed
            => /\ (OnlySpaces(rentOp.vehicleType) \/ NonNumeric(rentOp.typed)
                      \/ Negative(rentOp.typed))
                    => rentResult = "validation" /\ rentCall = "none"
               /\ rentResult = "validation" => rentCall = "none")
    /\ [][rentResult' = "validation" => rules' = rules /\ rentCall = "none"]_vars

\* C20's case: a negative minimum rent typed for a listed rule has ended
\* with the validation error.
C20_Witness ==
    /\ rentOp.pressed
    /\ rentOp.typed = <<"-", "5">> /\ rentOp.vehicleType = <<"a">>
    /\ rentOp.editingRule # NoId
    /\ rentResult = "validation"

\* A remote call of session s returns in this step.
CallReturns(s) ==
    \/ clearRes[s] = "pending" /\ clearRes'[s] # "pending"
    \/ mainRes[s] = "pending" /\ mainRes'[s] # "pending"

\* C21: a call of an invocation of owner A leaves the rows of every other
\* owner as they are, none added and none removed; rows change in no other
\* step; and the owner of a row never changes.
C21_OtherOwnersUntouched ==
    [][/\ \A s \in Sessions :
            CallReturns(s)
              => \A u \in Users :
                    u # op[s].user => RowsOf(rows', u) = RowsOf(rows, u)
       /\ rows' # rows => \E s \in Sessions : CallReturns(s)
       /\ \A r \in rows, q \in rows' : r.id = q.id => q.user_id = r.user_id
      ]_vars

\* C21's case: a promoting invocation has succeeded with its clear call
\* applied, and a row of another owner is still that owner's default.
C21_Witness ==
    \E s \in Sessions :
        /\ Promotes(op[s]) /\ clearRes[s] = "ok" /\ result[s] = "success"
        /\ \E r \in rows : r.user_id # op[s].user /\ r.is_default

\* C22: when setDefault(owner, addressId) has completed successfully, row
\* addressId exists, belongs to owner and is the default.
C22_SetDefaultSuccessMeansDefault ==
    \A s \in Sessions :
        (op[s].kind = "setDefault" /\ result[s] = "success")
          => \E r \in rows :
                r.id = op[s].id /\ r.user_id = op[s].user /\ r.is_default

\* C23: while saved addresses are listed and the selector is in manual-entry
\* mode, no saved address is selected.
C23_ManualEntryKeepsNoSelection ==
    (showManualInput /\ Len(addresses) > 0) => selectedAddressId = NoId

\* The ids of the listed addresses.
ListedIds == {addresses[i].id : i \in 1..Len(addresses)}

\* C24: once every invocation has ended and the list query set off by the
\* last successful one has returned, the selection is empty or the id of a
\* listed address.
C24_SelectionIsListed ==
    (Quiet /\ query = "idle") => selectedAddressId \in {NoId} \cup ListedIds

\* C25: a create or update without is_default = true never has a clear call,
\* and its steps add or change no row but the one inserted or named; the
\* other rows of the owner stay as they are, flags included.
C25_NoDefaultNoClear ==
    /\ [](\A s \in Sessions :
            (op[s].kind \in {"create", "update"} /\ ~op[s].is_default)
              => clearRes[s] = "none")
    /\ [][\A s \in Sessions :
            (op[s].kind \in {"create", "update"} /\ ~op[s].is_default)
              => /\ \A r \in rows : r.id # op[s].id => r \in rows'
                 /\ \A q \in rows' \ rows : q.id = TargetId(op[s])
         ]_vars

\* C25's case: an update without is_default of a row that is not the default
\* has succeeded, and the owner's default is the one it was.
C25_Witness ==
    \E s \in Sessions :
        /\ op[s].kind = "update" /\ ~op[s].is_default
        /\ result[s] = "success" /\ clearRes[s] = "none"
        /\ before[s] # {} /\ op[s].id \notin before[s]
        /\ DefaultIds(rows, op[s].user) = before[s]
====
